---- MODULE Spec2Model ----
(***************************************************************************)
(* riskformgen: the rule/condition compiler (models.py), the risk scales   *)
(* and matrix (config.py), the build pipeline of render.py                 *)
(* (validate_question_ids, prepare_sections, prepare_risks,                *)
(* prepare_controls, render_form)                                          *)
(* and the evaluation of the compiled expressions against the live answer  *)
(* map.                                                                    *)
(***************************************************************************)
EXTENDS Integers, Sequences, FiniteSets

VARIABLES
    sections,         \* the form: tuple of Section
    risks,            \* the form: list of Risk
    controls,         \* the form: list of Control
    pc,               \* position of the build / the page
    calls,            \* the steps render_form has run so far, in order
    errors,           \* the ValueError raised: its lines
    section_dicts,    \* prepare_sections: template-ready sections
    risk_dicts,       \* prepare_risks / prepare_controls: template-ready risks
    control_getters,  \* prepare_controls: one presence getter per control
    answers,          \* the live answer map of the page
    display           \* per risk: what the page shows for the current answers

vars == <<sections, risks, controls, pc, calls, errors, section_dicts, risk_dicts,
          control_getters, answers, display>>

(***************************************************************************)
(* Values.                                                                 *)
(***************************************************************************)
None == "None"            \* Python None
null == "null"            \* JavaScript null
Missing == "<missing>"    \* a key a Python dict does not hold

\* JavaScript values of the answer store: undefined, a string, an array of strings.
Undefined == [kind |-> "undefined", s |-> "", a |-> <<>>]
Str(s) == [kind |-> "string", s |-> s, a |-> <<>>]
Arr(a) == [kind |-> "array", s |-> "", a |-> a]

Range(seq) == {seq[i] : i \in 1..Len(seq)}

\* tuple.index(x), 1-based; 0 when x is not in the tuple (JavaScript indexOf -1).
IndexOf(seq, x) ==
    IF x \in Range(seq) THEN CHOOSE i \in 1..Len(seq) : seq[i] = x /\ \A j \in 1..(i - 1) : seq[j] # x
    ELSE 0

(***************************************************************************)
(* config.py: risk scales and matrix (order = ascending severity).         *)
(***************************************************************************)
\* Mutant of LIKELIHOODS: the two lowest steps in the wrong order.
LIKELIHOODS_misordered == <<"unlikely", "rare", "possible", "likely", "almost_certain">>

LIKELIHOODS == <<"rare", "unlikely", "possible", "likely", "almost_certain">>
CONSEQUENCES == <<"minor", "medium", "major">>
RISK_LEVELS == <<"not_applicable", "low", "medium", "high">>

\* Mutant of RISK_MATRIX: one cell missing.
RISK_MATRIX_gap ==
    [rare           |-> [minor |-> "low",    medium |-> "low",    major |-> "medium"],
     unlikely       |-> [minor |-> "low",    medium |-> "medium", major |-> "medium"],
     possible       |-> [minor |-> "medium", medium |-> "medium"],
     likely         |-> [minor |-> "medium", medium |-> "high",   major |-> "high"],
     almost_certain |-> [minor |-> "high",   medium |-> "high",   major |-> "high"]]

\* Mutant of RISK_MATRIX: one cell lower than the cell below it.
RISK_MATRIX_dip ==
    [rare           |-> [minor |-> "low",    medium |-> "low",    major |-> "medium"],
     unlikely       |-> [minor |-> "low",    medium |-> "medium", major |-> "medium"],
     possible       |-> [minor |-> "medium", medium |-> "medium", major |-> "high"],
     likely         |-> [minor |-> "low",    medium |-> "high",   major |-> "high"],
     almost_certain |-> [minor |-> "high",   medium |-> "high",   major |-> "high"]]

\* Mutant of RISK_MATRIX: the lowest pair rated above its neighbours.
RISK_MATRIX_corner ==
    [rare           |-> [minor |-> "high",   medium |-> "low",    major |-> "medium"],
     unlikely       |-> [minor |-> "low",    medium |-> "medium", major |-> "medium"],
     possible       |-> [minor |-> "medium", medium |-> "medium", major |-> "high"],
     likely         |-> [minor |-> "medium", medium |-> "high",   major |-> "high"],
     almost_certain |-> [minor |-> "high",   medium |-> "high",   major |-> "high"]]

RISK_MATRIX ==
    [rare           |-> [minor |-> "low",    medium |-> "low",    major |-> "medium"],
     unlikely       |-> [minor |-> "low",    medium |-> "medium", major |-> "medium"],
     possible       |-> [minor |-> "medium", medium |-> "medium", major |-> "high"],
     likely         |-> [minor |-> "medium", medium |-> "high",   major |-> "high"],
     almost_certain |-> [minor |-> "high",   medium |-> "high",   major |-> "high"]]

(***************************************************************************)
(* models.py: visibility conditions.  to_js() builds JavaScript source     *)
(* text; the text is kept as its sequence of tokens.                       *)
(***************************************************************************)
Equals(question_id, value) == [type |-> "equals", question_id |-> question_id, value |-> value]
Contains(question_id, value) == [type |-> "contains", question_id |-> question_id, value |-> value]
All(conditions) == [type |-> "all", conditions |-> conditions]
Any(conditions) == [type |-> "any", conditions |-> conditions]
Not(condition) == [type |-> "not", condition |-> condition]

\* visible_when = None
NoCondition == [type |-> "none"]

\* One token of the emitted text: answers["qid"], a string literal, ===, &&, ||,
\* !, ( and ), and the call (answers["qid"] || []).includes("value"), which is
\* a single primary expression.
Tok(t, qid, value) == [t |-> t, qid |-> qid, value |-> value]

Op(t) == Tok(t, "", "")

\* f"({text})"
Paren(toks) == <<Op("(")>> \o toks \o <<Op(")")>>

\* sep.join(parts): "" for no part.
RECURSIVE Join(_, _)
Join(parts, sep) ==
    IF parts = <<>> THEN <<>>
    ELSE IF Len(parts) = 1 THEN parts[1]
    ELSE parts[1] \o <<sep>> \o Join(Tail(parts), sep)

RECURSIVE condition_to_js(_)

\* answers["qid"] === "value"
Equals_to_js(c) == <<Tok("answers", c.question_id, ""), Op("==="), Tok("literal", "", c.value)>>

\* (answers["qid"] || []).includes("value")
Contains_to_js(c) == <<Tok("includes", c.question_id, c.value)>>

\* Mutant of All_to_js: the children joined without their parentheses.
All_to_js_bare(c) ==
    Join([i \in 1..Len(c.conditions) |-> condition_to_js(c.conditions[i])], Op("&&"))

\* " && ".join(f"({c.to_js()})" for c in self.conditions)
All_to_js(c) ==
    Join([i \in 1..Len(c.conditions) |-> Paren(condition_to_js(c.conditions[i]))], Op("&&"))

\* " || ".join(f"({c.to_js()})" for c in self.conditions)
Any_to_js(c) ==
    Join([i \in 1..Len(c.conditions) |-> Paren(condition_to_js(c.conditions[i]))], Op("||"))

\* Mutant of Not_to_js: the ! put before the child's text without parentheses.
Not_to_js_bare(c) == <<Op("!")>> \o condition_to_js(c.condition)

\* f"!({self.condition.to_js()})"
Not_to_js(c) == <<Op("!")>> \o Paren(condition_to_js(c.condition))

\* c.to_js(), dispatched on the class of c.
condition_to_js(c) ==
    CASE c.type = "equals" -> Equals_to_js(c)
      [] c.type = "contains" -> Contains_to_js(c)
      [] c.type = "all" -> All_to_js(c)
      [] c.type = "any" -> Any_to_js(c)
      [] c.type = "not" -> Not_to_js(c)

(***************************************************************************)
(* models.py: questions and form structure.                                *)
(***************************************************************************)
YesNoQuestion(id, text) ==
    [id |-> id, text |-> text, type |-> "yes_no", visible_when |-> NoCondition]
MultipleChoiceQuestion(id, text) ==
    [id |-> id, text |-> text, type |-> "multiple_choice", visible_when |-> NoCondition]
MultipleSelectQuestion(id, text) ==
    [id |-> id, text |-> text, type |-> "multiple_select", visible_when |-> NoCondition]

SubSection(title, questions) ==
    [title |-> title, questions |-> questions, visible_when |-> NoCondition]
Section(id, subsections) == [id |-> id, subsections |-> subsections]

\* The keyword argument visible_when=cond of a question or a subsection.
with_visible_when(obj, cond) == [obj EXCEPT !.visible_when = cond]

RECURSIVE Flatten(_)
Flatten(seqs) == IF seqs = <<>> THEN <<>> ELSE Head(seqs) \o Flatten(Tail(seqs))

\* [q for s in sections for sub in s.subsections for q in sub.questions]
all_questions(secs) ==
    Flatten([i \in 1..Len(secs) |->
        Flatten([j \in 1..Len(secs[i].subsections) |-> secs[i].subsections[j].questions])])

(***************************************************************************)
(* models.py: risk rules.  Every rule is a record with the same fields;    *)
(* the fields a rule type does not have keep their empty value.            *)
(***************************************************************************)
AnyYesRule(question_ids, likelihood, consequence) ==
    [type |-> "any_yes", question_ids |-> question_ids, threshold |-> 0,
     question_id |-> "", mapping |-> <<>>, values |-> <<>>,
     likelihood |-> likelihood, consequence |-> consequence]

CountYesRule(question_ids, threshold, likelihood, consequence) ==
    [type |-> "count_yes", question_ids |-> question_ids, threshold |-> threshold,
     question_id |-> "", mapping |-> <<>>, values |-> <<>>,
     likelihood |-> likelihood, consequence |-> consequence]

\* mapping: the dict as the list of its items, [answer, dims]; dims holds
\* Missing for a key the inner dict does not have.
ChoiceMapRule(question_id, mapping) ==
    [type |-> "choice_map", question_ids |-> <<>>, threshold |-> 0,
     question_id |-> question_id, mapping |-> mapping, values |-> <<>>,
     likelihood |-> None, consequence |-> None]

ContainsAnyRule(question_id, values, likelihood, consequence) ==
    [type |-> "contains_any", question_ids |-> <<>>, threshold |-> 0,
     question_id |-> question_id, mapping |-> <<>>, values |-> values,
     likelihood |-> likelihood, consequence |-> consequence]

Dims(likelihood, consequence) == [likelihood |-> likelihood, consequence |-> consequence]
Item(answer, dims) == [answer |-> answer, dims |-> dims]

\* Mutant of post_init: a rule without a dimension is accepted as it is.
post_init_lenient(rule) == "ok"

\* __post_init__ of AnyYesRule, CountYesRule and ContainsAnyRule; ChoiceMapRule has none.
post_init(rule) ==
    IF rule.type # "choice_map" /\ rule.likelihood = None /\ rule.consequence = None
    THEN "ValueError" ELSE "ok"

referenced_question_ids(rule) ==
    IF rule.type \in {"any_yes", "count_yes"} THEN rule.question_ids
    ELSE <<rule.question_id>>

Risk(id, rules, default_likelihood, default_consequence) ==
    [id |-> id, name |-> id, rules |-> rules,
     default_likelihood |-> default_likelihood,
     default_consequence |-> default_consequence]

(***************************************************************************)
(* models.py: the compiler.  A compiled rule is the JavaScript expression  *)
(* to_js() returns, kept as its parts.                                     *)
(***************************************************************************)
\* Mutant of js_result: a missing dimension filled with the lowest step instead of null.
js_result_guessing(likelihood, consequence) ==
    [fired |-> TRUE,
     likelihood |-> IF likelihood \in {None, ""} THEN "rare" ELSE likelihood,
     consequence |-> IF consequence \in {None, ""} THEN "minor" ELSE consequence]

\* `x if x else "null"`: None and the empty string are falsy.
js_result(likelihood, consequence) ==
    [fired |-> TRUE,
     likelihood |-> IF likelihood \in {None, ""} THEN null ELSE likelihood,
     consequence |-> IF consequence \in {None, ""} THEN null ELSE consequence]

\* Mutant of dims_get: dims[key] copied only where dims has the key.
dims_get_as_given(v) == v

\* dims.get(key) then json.dumps: a missing key and None both become null.
dims_get(v) == IF v \in {Missing, None} THEN null ELSE v

JsExpr(kind, ids, threshold, qid, table, vals, result) ==
    [kind |-> kind, ids |-> ids, threshold |-> threshold, qid |-> qid,
     table |-> table, vals |-> vals, result |-> result]

\* Mutant of AnyYesRule_to_js: the two dimensions handed over in the wrong order.
AnyYesRule_to_js_swapped(rule) ==
    JsExpr("some_yes", rule.question_ids, 0, "", <<>>, <<>>,
           js_result(rule.consequence, rule.likelihood))

\* Mutant of AnyYesRule_to_js: only the first of the ids is tested.
AnyYesRule_to_js_first(rule) ==
    JsExpr("some_yes",
           IF rule.question_ids = <<>> THEN <<>> ELSE <<rule.question_ids[1]>>,
           0, "", <<>>, <<>>, js_result(rule.likelihood, rule.consequence))

\* ids.some(id => this.answers[id] === 'yes') ? result : null
AnyYesRule_to_js(rule) ==
    JsExpr("some_yes", rule.question_ids, 0, "", <<>>, <<>>,
           js_result(rule.likelihood, rule.consequence))

\* Mutant of CountYesRule_to_js: "> threshold" where the code has ">= threshold".
CountYesRule_to_js_strict(rule) ==
    JsExpr("count_yes", rule.question_ids, rule.threshold + 1, "", <<>>, <<>>,
           js_result(rule.likelihood, rule.consequence))

\* ids.filter(id => this.answers[id] === 'yes').length >= threshold ? result : null
CountYesRule_to_js(rule) ==
    JsExpr("count_yes", rule.question_ids, rule.threshold, "", <<>>, <<>>,
           js_result(rule.likelihood, rule.consequence))

\* Mutant of ChoiceMapRule_to_js: each dimension read from the other's key.
ChoiceMapRule_to_js_swapped(rule) ==
    JsExpr("lookup", <<>>, 0, rule.question_id,
           [i \in 1..Len(rule.mapping) |->
               [answer |-> rule.mapping[i].answer,
                likelihood |-> dims_get(rule.mapping[i].dims.consequence),
                consequence |-> dims_get(rule.mapping[i].dims.likelihood)]],
           <<>>, js_result(None, None))

\* normalised[this.answers[qid]] || null
ChoiceMapRule_to_js(rule) ==
    JsExpr("lookup", <<>>, 0, rule.question_id,
           [i \in 1..Len(rule.mapping) |->
               [answer |-> rule.mapping[i].answer,
                likelihood |-> dims_get(rule.mapping[i].dims.likelihood),
                consequence |-> dims_get(rule.mapping[i].dims.consequence)]],
           <<>>, js_result(None, None))

\* Mutant of ContainsAnyRule_to_js: only the first of the values is emitted.
ContainsAnyRule_to_js_first(rule) ==
    JsExpr("some_includes", <<>>, 0, rule.question_id, <<>>,
           IF rule.values = <<>> THEN <<>> ELSE <<rule.values[1]>>,
           js_result(rule.likelihood, rule.consequence))

\* vals.some(v => (this.answers[qid] || []).includes(v)) ? result : null
ContainsAnyRule_to_js(rule) ==
    JsExpr("some_includes", <<>>, 0, rule.question_id, <<>>, rule.values,
           js_result(rule.likelihood, rule.consequence))

to_js(rule) ==
    CASE rule.type = "any_yes" -> AnyYesRule_to_js(rule)
      [] rule.type = "count_yes" -> CountYesRule_to_js(rule)
      [] rule.type = "choice_map" -> ChoiceMapRule_to_js(rule)
      [] rule.type = "contains_any" -> ContainsAnyRule_to_js(rule)

(***************************************************************************)
(* The answer store and the JavaScript the compiled expressions run.       *)
(***************************************************************************)
\* this.answers[id]: undefined for an id the store does not hold.
Lookup(ans, id) == IF id \in DOMAIN ans THEN ans[id] ELSE Undefined

\* Array.prototype.join(","), which is how an array becomes a property key.
RECURSIVE JoinComma(_)
JoinComma(a) ==
    IF a = <<>> THEN ""
    ELSE IF Len(a) = 1 THEN a[1]
    ELSE a[1] \o "," \o JoinComma(Tail(a))

\* object[v]: the property key v is converted to.
ToPropertyKey(v) ==
    CASE v.kind = "undefined" -> "undefined"
      [] v.kind = "string" -> v.s
      [] v.kind = "array" -> JoinComma(v.a)

\* Mutant of StrictEq: v == 'literal', which converts an array to its joined text.
StrictEq_loose(v, literal) == v.kind \in {"string", "array"} /\ ToPropertyKey(v) = literal

\* v === 'literal'
StrictEq(v, literal) == v.kind = "string" /\ v.s = literal

\* JavaScript booleans, as values of the same shape as the stored answers.
Bool(b) == [kind |-> "boolean", s |-> IF b THEN "true" ELSE "false", a |-> <<>>]

\* What a text that is not a JavaScript expression gives when it is run.
SyntaxError == [kind |-> "SyntaxError", s |-> "", a |-> <<>>]

\* JavaScript truthiness: undefined, '' and false are falsy.
Truthy(v) ==
    \/ v.kind = "array"
    \/ (v.kind = "string" /\ v.s # "")
    \/ (v.kind = "boolean" /\ v.s = "true")

\* Mutant of OrEmptyArray: the answer itself, without the "|| []" guard.
OrEmptyArray_unguarded(v) == v

\* (v || [])
OrEmptyArray(v) == IF Truthy(v) THEN v ELSE Arr(<<>>)

\* String.prototype.includes: x occurs in s as a substring.
IsSubstring(x, s) ==
    \E i \in 1..(Len(s) - Len(x) + 1) : SubSeq(s, i, i + Len(x) - 1) = x

\* v.includes exists for an array and for a string; calling it on anything else
\* throws a TypeError.
CanInclude(v) == v.kind \in {"array", "string"}

TypeError == [kind |-> "TypeError", s |-> "", a |-> <<>>]

\* v.includes(x): membership for an array, substring for a string.
Includes(v, x) ==
    CASE v.kind = "array" -> x \in Range(v.a)
      [] v.kind = "string" -> IsSubstring(x, v.s)
      [] OTHER -> FALSE

\* a === b for the values an expression of this model can hold: an array is
\* never identical to a literal, undefined only to undefined.
StrictEquals(a, b) ==
    /\ a.kind = b.kind
    /\ a.kind \in {"string", "boolean", "undefined"}
    /\ a.s = b.s

(***************************************************************************)
(* Running the text of a compiled condition: JavaScript's expression       *)
(* grammar over the tokens, with its precedence ! over === over && over || *)
(* A parse step gives [ok, v, rest]: the value of the longest expression   *)
(* at the head of the tokens and what follows it.                          *)
(***************************************************************************)
Parsed(v, rest) == [ok |-> TRUE, v |-> v, rest |-> rest]

NoParse == [ok |-> FALSE, v |-> SyntaxError, rest |-> <<>>]

NextIs(toks, t) == toks # <<>> /\ Head(toks).t = t

RECURSIVE ParseOr(_, _)
RECURSIVE ParseUnary(_, _)
RECURSIVE EqualityRest(_, _)
RECURSIVE AndRest(_, _)
RECURSIVE OrRest(_, _)

\* ( expression ), answers["qid"], "literal", (answers["qid"] || []).includes("value")
ParsePrimary(toks, ans) ==
    IF toks = <<>> THEN NoParse
    ELSE LET h == Head(toks)
         IN  CASE h.t = "(" ->
                    LET r == ParseOr(Tail(toks), ans)
                    IN  IF r.ok /\ NextIs(r.rest, ")") THEN Parsed(r.v, Tail(r.rest)) ELSE NoParse
               [] h.t = "answers" -> Parsed(Lookup(ans, h.qid), Tail(toks))
               [] h.t = "literal" -> Parsed(Str(h.value), Tail(toks))
               [] h.t = "includes" ->
                    LET v == OrEmptyArray(Lookup(ans, h.qid))
                    IN  IF CanInclude(v) THEN Parsed(Bool(Includes(v, h.value)), Tail(toks))
                        ELSE Parsed(TypeError, Tail(toks))
               [] OTHER -> NoParse

\* ! unary
ParseUnary(toks, ans) ==
    IF NextIs(toks, "!")
    THEN LET r == ParseUnary(Tail(toks), ans)
         IN  IF ~r.ok THEN NoParse
             ELSE IF r.v = TypeError THEN r
             ELSE Parsed(Bool(~Truthy(r.v)), r.rest)
    ELSE ParsePrimary(toks, ans)

\* left === right === ...
EqualityRest(left, ans) ==
    IF ~left.ok THEN NoParse
    ELSE IF NextIs(left.rest, "===")
    THEN LET r == ParseUnary(Tail(left.rest), ans)
         IN  IF ~r.ok THEN NoParse
             ELSE IF TypeError \in {left.v, r.v} THEN EqualityRest(Parsed(TypeError, r.rest), ans)
             ELSE EqualityRest(Parsed(Bool(StrictEquals(left.v, r.v)), r.rest), ans)
    ELSE left

ParseEquality(toks, ans) == EqualityRest(ParseUnary(toks, ans), ans)

\* left && right && ... : the left operand when it is falsy, else the right one
\* (a TypeError thrown by the left operand is falsy here and so is the result).
AndRest(left, ans) ==
    IF ~left.ok THEN NoParse
    ELSE IF NextIs(left.rest, "&&")
    THEN LET r == ParseEquality(Tail(left.rest), ans)
         IN  IF r.ok THEN AndRest(Parsed(IF Truthy(left.v) THEN r.v ELSE left.v, r.rest), ans)
             ELSE NoParse
    ELSE left

ParseAnd(toks, ans) == AndRest(ParseEquality(toks, ans), ans)

\* left || right || ... : the left operand when it is truthy, else the right one
\* (after a TypeError thrown on the left every later operand is skipped).
OrRest(left, ans) ==
    IF ~left.ok THEN NoParse
    ELSE IF NextIs(left.rest, "||")
    THEN LET r == ParseAnd(Tail(left.rest), ans)
         IN  IF r.ok
             THEN OrRest(Parsed(IF Truthy(left.v) \/ left.v = TypeError THEN left.v ELSE r.v,
                                r.rest), ans)
             ELSE NoParse
    ELSE left

ParseOr(toks, ans) == OrRest(ParseAnd(toks, ans), ans)

\* The value of the whole text: undefined for the empty text, a SyntaxError
\* when the tokens are not one expression.
EvalJs(toks, ans) ==
    IF toks = <<>> THEN Undefined
    ELSE LET r == ParseOr(toks, ans)
         IN  IF r.ok /\ r.rest = <<>> THEN r.v ELSE SyntaxError

\* What a rule's expression evaluates to: null, or an object {likelihood, consequence}.
NoOutcome == [fired |-> FALSE, likelihood |-> null, consequence |-> null]

EvalSomeYes(js, ans) ==
    IF \E i \in 1..Len(js.ids) : StrictEq(Lookup(ans, js.ids[i]), "yes")
    THEN js.result ELSE NoOutcome

EvalCountYes(js, ans) ==
    IF Cardinality({i \in 1..Len(js.ids) : StrictEq(Lookup(ans, js.ids[i]), "yes")}) >= js.threshold
    THEN js.result ELSE NoOutcome

EvalLookup(js, ans) ==
    LET key == ToPropertyKey(Lookup(ans, js.qid))
        hits == {i \in 1..Len(js.table) : js.table[i].answer = key}
    IN  IF hits = {} THEN NoOutcome
        ELSE LET e == js.table[CHOOSE i \in hits : \A j \in hits : i >= j]
             IN  [fired |-> TRUE, likelihood |-> e.likelihood, consequence |-> e.consequence]

\* The evaluation of a rule's expression ended in a TypeError.
Thrown == [fired |-> FALSE, likelihood |-> "TypeError", consequence |-> "TypeError"]

EvalSomeIncludes(js, ans) ==
    IF js.vals # <<>> /\ ~CanInclude(OrEmptyArray(Lookup(ans, js.qid))) THEN Thrown
    ELSE IF \E i \in 1..Len(js.vals) : Includes(OrEmptyArray(Lookup(ans, js.qid)), js.vals[i])
    THEN js.result ELSE NoOutcome

EvalRuleJs(js, ans) ==
    CASE js.kind = "some_yes" -> EvalSomeYes(js, ans)
      [] js.kind = "count_yes" -> EvalCountYes(js, ans)
      [] js.kind = "lookup" -> EvalLookup(js, ans)
      [] js.kind = "some_includes" -> EvalSomeIncludes(js, ans)

(***************************************************************************)
(* Controls.                                                               *)
(***************************************************************************)
ControlEffect(risk_id, reduces_likelihood, reduces_consequence) ==
    [risk_id |-> risk_id, reduces_likelihood |-> reduces_likelihood,
     reduces_consequence |-> reduces_consequence]

\* ControlEffect.__post_init__: at least one of the two flags.
effect_post_init(effect) ==
    IF ~effect.reduces_likelihood /\ ~effect.reduces_consequence THEN "ValueError" ELSE "ok"

Control(id, question_id, present_value, effects) ==
    [id |-> id, name |-> id, question_id |-> question_id,
     present_value |-> present_value, effects |-> effects]

\* Mutant of presence_js: the scalar comparison alone, a === value.
presence_js_scalar(ctrl) ==
    [qid |-> ctrl.question_id, value |-> ctrl.present_value, is_array_test |-> FALSE]

\* Control.presence_js(): Array.isArray(a) ? a.includes(value) : a === value
presence_js(ctrl) ==
    [qid |-> ctrl.question_id, value |-> ctrl.present_value, is_array_test |-> TRUE]

EvalPresenceJs(js, ans) ==
    LET v == Lookup(ans, js.qid)
    IN  IF js.is_array_test /\ v.kind = "array" THEN Includes(v, js.value)
        ELSE StrictEq(v, js.value)

(***************************************************************************)
(* render.py: referential validation.                                      *)
(***************************************************************************)
\* One line of the aggregated error: "<kind> '<owner>' references unknown question '<qid>'".
ErrorLine(kind, owner, qid) == [kind |-> kind, owner |-> owner, question |-> qid]

RuleErrors(risk, rule, valid_ids) ==
    LET bad == SelectSeq(referenced_question_ids(rule), LAMBDA qid : qid \notin valid_ids)
    IN  [i \in 1..Len(bad) |-> ErrorLine("Risk", risk.id, bad[i])]

RiskErrors(risk, valid_ids) ==
    Flatten([j \in 1..Len(risk.rules) |-> RuleErrors(risk, risk.rules[j], valid_ids)])

ControlErrors(ctrl, valid_ids) ==
    IF ctrl.question_id \notin valid_ids
    THEN <<ErrorLine("Control", ctrl.id, ctrl.question_id)>> ELSE <<>>

\* Mutant of validate_question_ids: it raises at the first offender.
validate_first_offender(questions, rs, cs) ==
    LET valid_ids == {questions[i].id : i \in 1..Len(questions)}
        all == Flatten([i \in 1..Len(rs) |-> RiskErrors(rs[i], valid_ids)])
               \o Flatten([i \in 1..Len(cs) |-> ControlErrors(cs[i], valid_ids)])
    IN  IF all = <<>> THEN <<>> ELSE <<Head(all)>>

\* The errors list validate_question_ids builds; it raises iff the list is not empty.
validate_question_ids(questions, rs, cs) ==
    LET valid_ids == {questions[i].id : i \in 1..Len(questions)}
    IN  Flatten([i \in 1..Len(rs) |-> RiskErrors(rs[i], valid_ids)])
        \o Flatten([i \in 1..Len(cs) |-> ControlErrors(cs[i], valid_ids)])

(***************************************************************************)
(* render.py: prepare_sections.  A dict has the key visible_when_js only   *)
(* when visible_when is not None.                                          *)
(***************************************************************************)
prepare_question(q) ==
    [id |-> q.id, text |-> q.text, type |-> q.type,
     has_visible_when_js |-> q.visible_when # NoCondition,
     visible_when_js |->
        IF q.visible_when # NoCondition THEN condition_to_js(q.visible_when) ELSE <<>>]

prepare_subsection(sub) ==
    [title |-> sub.title,
     questions |-> [i \in 1..Len(sub.questions) |-> prepare_question(sub.questions[i])],
     has_visible_when_js |-> sub.visible_when # NoCondition,
     visible_when_js |->
        IF sub.visible_when # NoCondition THEN condition_to_js(sub.visible_when) ELSE <<>>]

prepare_sections(secs) ==
    [i \in 1..Len(secs) |->
        [id |-> secs[i].id,
         subsections |-> [j \in 1..Len(secs[i].subsections) |->
                            prepare_subsection(secs[i].subsections[j])]]]

(***************************************************************************)
(* render.py: prepare_risks and prepare_controls.                          *)
(***************************************************************************)
\* Mutant of Dedupe: the last occurrence of each element is the one kept.
Dedupe_last(seq) ==
    LET tagged == [i \in 1..Len(seq) |-> <<i, seq[i]>>]
        kept == SelectSeq(tagged, LAMBDA t : \A j \in (t[1] + 1)..Len(seq) : seq[j] # t[2])
    IN  [i \in 1..Len(kept) |-> kept[i][2]]

\* list(dict.fromkeys(seq)): the first occurrence of each element, in order.
RECURSIVE Dedupe(_)
Dedupe(seq) ==
    IF seq = <<>> THEN <<>>
    ELSE LET init == Dedupe(SubSeq(seq, 1, Len(seq) - 1))
             last == seq[Len(seq)]
         IN  IF last \in Range(init) THEN init ELSE Append(init, last)

\* q_text[qid] of {q.id: q.text for q in questions}: the last question with the id wins.
q_text(questions, qid) ==
    LET hits == {i \in 1..Len(questions) : questions[i].id = qid}
    IN  IF hits = {} THEN "KeyError"
        ELSE questions[CHOOSE i \in hits : \A j \in hits : i >= j].text

\* Mutant of rules_js_of: the compiled rules in reverse declaration order.
rules_js_reversed(risk) ==
    [j \in 1..Len(risk.rules) |-> to_js(risk.rules[Len(risk.rules) + 1 - j])]

rules_js_of(risk) == [j \in 1..Len(risk.rules) |-> to_js(risk.rules[j])]

prepare_risk(risk, questions) ==
    LET ids == Dedupe(Flatten([j \in 1..Len(risk.rules) |->
                   referenced_question_ids(risk.rules[j])]))
    IN  [id |-> risk.id,
         name |-> risk.name,
         default_likelihood |-> risk.default_likelihood,
         default_consequence |-> risk.default_consequence,
         rules_js |-> rules_js_of(risk),
         questions |-> [k \in 1..Len(ids) |-> [id |-> ids[k], text |-> q_text(questions, ids[k])]],
         has_controls |-> FALSE,
         controls |-> <<>>]

prepare_risks(rs, questions) == [i \in 1..Len(rs) |-> prepare_risk(rs[i], questions)]

\* Mutant of control_entry: the two flags copied into each other's key.
control_entry_swapped(ctrl, effect) ==
    [id |-> ctrl.id, name |-> ctrl.name,
     reduces_likelihood |-> effect.reduces_consequence,
     reduces_consequence |-> effect.reduces_likelihood]

\* The dict appended to a risk's "controls" for one effect of one control.
control_entry(ctrl, effect) ==
    [id |-> ctrl.id, name |-> ctrl.name,
     reduces_likelihood |-> effect.reduces_likelihood,
     reduces_consequence |-> effect.reduces_consequence]

\* risk_by_id[risk_id] as an index into risk_dicts (0: not a key); the last dict with the id wins.
risk_by_id(dicts, risk_id) ==
    LET hits == {k \in 1..Len(dicts) : dicts[k].id = risk_id}
    IN  IF hits = {} THEN 0 ELSE CHOOSE k \in hits : \A j \in hits : k >= j

\* for ctrl in controls: for effect in ctrl.effects:, as the list of loop iterations.
effect_iterations(cs) ==
    Flatten([i \in 1..Len(cs) |->
        [e \in 1..Len(cs[i].effects) |-> [ctrl |-> cs[i], effect |-> cs[i].effects[e]]]])

\* Mutant of attach_effects: each entry is put at the head of the list.
RECURSIVE attach_effects_at_head(_, _)
attach_effects_at_head(its, dicts) ==
    IF its = <<>> THEN dicts
    ELSE LET it == Head(its)
             k == risk_by_id(dicts, it.effect.risk_id)
         IN  attach_effects_at_head(Tail(its),
                 IF k = 0 THEN dicts
                 ELSE [dicts EXCEPT ![k].controls = <<control_entry(it.ctrl, it.effect)>> \o @])

RECURSIVE attach_effects(_, _)
attach_effects(its, dicts) ==
    IF its = <<>> THEN dicts
    ELSE LET it == Head(its)
             k == risk_by_id(dicts, it.effect.risk_id)
         IN  attach_effects(Tail(its),
                 IF k = 0 THEN dicts
                 ELSE [dicts EXCEPT ![k].controls = Append(@, control_entry(it.ctrl, it.effect))])

\* Mutant of prepare_controls_risks: the key "controls" is set only on the dicts
\* an effect is attached to.
prepare_controls_risks_targeted(cs, dicts) ==
    LET attached == attach_effects(effect_iterations(cs),
                        [k \in 1..Len(dicts) |-> [dicts[k] EXCEPT !.controls = <<>>]])
    IN  [k \in 1..Len(dicts) |->
            [attached[k] EXCEPT !.has_controls = attached[k].controls # <<>>]]

\* prepare_controls: the risk dicts with their "controls" lists attached ...
prepare_controls_risks(cs, dicts) ==
    attach_effects(effect_iterations(cs),
        [k \in 1..Len(dicts) |-> [dicts[k] EXCEPT !.has_controls = TRUE, !.controls = <<>>]])

\* ... and the control getters it returns.
prepare_controls_getters(cs) == [i \in 1..Len(cs) |-> [id |-> cs[i].id, js |-> presence_js(cs[i])]]

(***************************************************************************)
(* The page: per risk, the evaluation of the compiled rules against the    *)
(* live answers, the matrix lookup and the control reductions.             *)
(***************************************************************************)
\* Rules in order; the first non-null outcome is taken.
RECURSIVE TakeOutcome(_, _)
TakeOutcome(rules_js, ans) ==
    IF rules_js = <<>> THEN NoOutcome
    ELSE LET o == EvalRuleJs(Head(rules_js), ans)
         IN  IF o.fired THEN o ELSE TakeOutcome(Tail(rules_js), ans)

\* A Python value rendered into the page: None becomes null.
tojson(v) == IF v = None THEN null ELSE v

\* One dimension of the resolved pair: the taken outcome's, else the risk's default.
ResolveDim(fired, taken, default) ==
    IF fired /\ taken # null THEN taken ELSE tojson(default)

\* RISK_MATRIX[likelihood][consequence] as the page reads it.
MatrixLookup(likelihood, consequence) ==
    IF likelihood \notin DOMAIN RISK_MATRIX THEN "TypeError"
    ELSE IF consequence \notin DOMAIN RISK_MATRIX[likelihood] THEN "undefined"
    ELSE RISK_MATRIX[likelihood][consequence]

\* An incomplete pair reports not_applicable; a complete one goes through the matrix.
LevelOf(likelihood, consequence) ==
    IF likelihood = null \/ consequence = null THEN "not_applicable"
    ELSE MatrixLookup(likelihood, consequence)

\* One step down the ascending scale, clamped at the lowest step.
StepDown(scale, v) ==
    LET i == IndexOf(scale, v)
    IN  IF i = 0 THEN v ELSE scale[IF i > 1 THEN i - 1 ELSE 1]

is_present(getters, ctrl_id, ans) ==
    \E g \in 1..Len(getters) : getters[g].id = ctrl_id /\ EvalPresenceJs(getters[g].js, ans)

\* The entries of a risk's "controls" whose control is present, in order.
present_controls(rd, getters, ans) ==
    SelectSeq(rd.controls, LAMBDA c : is_present(getters, c.id, ans))

RECURSIVE apply_controls(_, _)
apply_controls(pair, cs) ==
    IF cs = <<>> THEN pair
    ELSE LET c == Head(cs)
         IN  apply_controls(
                 [likelihood |-> IF c.reduces_likelihood
                                 THEN StepDown(LIKELIHOODS, pair.likelihood) ELSE pair.likelihood,
                  consequence |-> IF c.reduces_consequence
                                  THEN StepDown(CONSEQUENCES, pair.consequence) ELSE pair.consequence],
                 Tail(cs))

evaluate_risk(rd, getters, ans) ==
    LET taken == TakeOutcome(rd.rules_js, ans)
        l == ResolveDim(taken.fired, taken.likelihood, rd.default_likelihood)
        c == ResolveDim(taken.fired, taken.consequence, rd.default_consequence)
        present == present_controls(rd, getters, ans)
        final == apply_controls([likelihood |-> l, consequence |-> c], present)
    IN  [id |-> rd.id,
         taken |-> taken,
         likelihood |-> l,
         consequence |-> c,
         base_level |-> LevelOf(l, c),
         present |-> present,
         final_likelihood |-> final.likelihood,
         final_consequence |-> final.consequence,
         level |-> LevelOf(final.likelihood, final.consequence)]

evaluate_all(dicts, getters, ans) ==
    [k \in 1..Len(dicts) |-> evaluate_risk(dicts[k], getters, ans)]

\* Mutant of recompute: only the risks whose rules read the changed question are
\* evaluated again; the others keep what they showed.
recompute_rule_readers(shown, qid, dicts, getters, ans) ==
    [k \in 1..Len(dicts) |->
        IF \E i \in 1..Len(dicts[k].questions) : dicts[k].questions[i].id = qid
        THEN evaluate_risk(dicts[k], getters, ans) ELSE shown[k]]

\* The reaction to a write of answers[qid]: every risk is evaluated again on the
\* new answers before the page takes another change.
recompute(shown, qid, dicts, getters, ans) == evaluate_all(dicts, getters, ans)

(***************************************************************************)
(* The forms the build is run on.                                          *)
(***************************************************************************)
MaxIds == 2          \* longest question_ids list of the single-rule forms
MaxThreshold == 3    \* largest CountYesRule threshold
MaxRules == 2        \* most rules of a risk in the rule-order forms
MaxControls == 2     \* most controls in the compounding forms
MaxChildren == 2     \* most children of an All or Any over atomic conditions

SeqsUpTo(S, n) == UNION {[1..k -> S] : k \in 0..n}

Injective(seq) == \A i, j \in 1..Len(seq) : seq[i] = seq[j] => i = j

Q1 == YesNoQuestion("q1", "Question one?")
Q2 == YesNoQuestion("q2", "Question two?")
SEASON == MultipleChoiceQuestion("season", "Which season?")
MS == MultipleSelectQuestion("ms", "Pick many")

SectionsYesNo == <<Section("s1", <<SubSection("a", <<Q1>>), SubSection("b", <<Q2>>)>>)>>
SectionsChoice == <<Section("s1", <<SubSection("a", <<Q1, SEASON>>)>>)>>
SectionsSelect == <<Section("s1", <<SubSection("a", <<Q1>>)>>), Section("s2", <<SubSection("b", <<MS>>)>>)>>
SectionsAll == <<Section("s1", <<SubSection("a", <<Q1, Q2>>)>>), Section("s2", <<SubSection("b", <<MS>>)>>)>>

\* What the page can store for a question of each type.
AnswerValues(type) ==
    CASE type = "yes_no" -> {Undefined, Str("yes"), Str("no")}
      [] type = "multiple_choice" -> {Undefined, Str("Winter"), Str("Summer")}
      [] type = "multiple_select" ->
            {Undefined, Arr(<<>>), Arr(<<"x">>), Arr(<<"y", "x">>), Arr(<<"yes">>)}

Form(secs, rs, cs) == [sections |-> secs, risks |-> rs, controls |-> cs]

\* The arguments rules are built from; a rule exists only if __post_init__ accepts it.
Outcomes == {<<"likely", None>>, <<None, "major">>, <<"possible", "medium">>, <<None, None>>}

Constructed(rules) == {r \in rules : post_init(r) = "ok"}

YesRules ==
    Constructed(
        {AnyYesRule(ids, o[1], o[2]) : ids \in SeqsUpTo({"q1", "q2"}, MaxIds), o \in Outcomes}
        \cup {CountYesRule(ids, t, o[1], o[2]) :
                ids \in SeqsUpTo({"q1", "q2"}, MaxIds), t \in (-1)..MaxThreshold,
                o \in {<<"likely", None>>, <<None, None>>}})

Mappings ==
    {<<>>,
     <<Item("Winter", Dims("likely", "major"))>>,
     <<Item("Winter", Dims("likely", Missing)), Item("Summer", Dims("rare", "minor"))>>,
     <<Item("yes", Dims(None, "medium"))>>}

ChoiceRules == {ChoiceMapRule(qid, m) : qid \in {"season", "q1"}, m \in Mappings}

SelectRules ==
    Constructed(
        {ContainsAnyRule("ms", vals, o[1], o[2]) :
            vals \in {<<>>, <<"x">>, <<"y">>, <<"z", "x">>}, o \in Outcomes})

\* One risk with one rule: every rule type over its arguments.
SingleRuleForms ==
    {Form(SectionsYesNo, <<Risk("r1", <<r>>, "rare", "minor")>>, <<>>) : r \in YesRules}
    \cup {Form(SectionsChoice, <<Risk("r1", <<r>>, "rare", "minor")>>, <<>>) : r \in ChoiceRules}
    \cup {Form(SectionsSelect, <<Risk("r1", <<r>>, "rare", "minor")>>, <<>>) : r \in SelectRules}
    \cup {Form(SectionsChoice,
               <<Risk("r1", <<AnyYesRule(ids, "likely", None)>>, "rare", "minor")>>, <<>>) :
            ids \in {<<"season">>, <<"season", "q1">>}}
    \cup {Form(SectionsSelect,
               <<Risk("r1", <<AnyYesRule(ids, "likely", None)>>, "rare", "minor")>>, <<>>) :
            ids \in {<<"ms">>, <<"ms", "q1">>}}

\* One risk with several rules that can fire together.
OrderRules ==
    {AnyYesRule(<<"q1">>, "likely", None),
     AnyYesRule(<<"q1", "q2">>, None, "major"),
     CountYesRule(<<"q1", "q2">>, 2, "possible", "medium"),
     ChoiceMapRule("q2", <<Item("yes", Dims("unlikely", "minor"))>>)}

RuleOrderForms ==
    {Form(SectionsYesNo, <<Risk("r1", rules, "rare", "minor")>>, <<>>) :
        rules \in {rs \in SeqsUpTo(OrderRules, MaxRules) : Len(rs) >= 2}}

\* One risk over every default pair, with at most one control on q2.
Defaults(scale) == Range(scale) \cup {None}

OneControl ==
    {<<>>} \cup
    {<<Control("c1", "q2", "yes", <<ControlEffect("r1", e[1], e[2])>>)>> :
        e \in {<<TRUE, FALSE>>, <<FALSE, TRUE>>, <<TRUE, TRUE>>}}

DefaultForms ==
    {Form(SectionsYesNo, <<Risk("r1", rules, dl, dc)>>, cs) :
        rules \in {<<>>, <<AnyYesRule(<<"q1">>, "likely", None)>>,
                   <<AnyYesRule(<<"q1">>, None, "major")>>},
        dl \in Defaults(LIKELIHOODS), dc \in Defaults(CONSEQUENCES), cs \in OneControl}

\* Two risks and several controls whose effects compound.
ControlPool ==
    {Control("c1", "q1", "yes", <<ControlEffect("r1", TRUE, FALSE)>>),
     Control("c2", "q2", "yes", <<ControlEffect("r2", TRUE, TRUE), ControlEffect("r1", FALSE, TRUE)>>),
     Control("c3", "ms", "x", <<ControlEffect("r1", TRUE, TRUE)>>),
     Control("c4", "q1", "yes", <<ControlEffect("nonexistent", TRUE, FALSE), ControlEffect("r2", FALSE, TRUE),
                                  ControlEffect("r2", TRUE, FALSE)>>)}

CompoundForms ==
    {Form(SectionsAll,
          <<Risk("r1", <<>>, "almost_certain", "major"),
            Risk("r2", <<AnyYesRule(<<"q2">>, "likely", None)>>, dl, "minor")>>,
          cs) :
        dl \in {"unlikely", "rare"},
        cs \in {c \in SeqsUpTo(ControlPool, MaxControls) : Injective(c)}}

\* Forms with references to questions that do not exist.
BadRisks ==
    {<<>>,
     <<Risk("r1", <<AnyYesRule(<<"q1">>, "likely", None)>>, "rare", "minor")>>,
     <<Risk("r1", <<AnyYesRule(<<"bad1">>, "likely", None)>>, "rare", "minor")>>,
     <<Risk("r1", <<AnyYesRule(<<"q1">>, "likely", None)>>, "rare", "minor"),
       Risk("r2", <<CountYesRule(<<"bad1", "q1", "bad3">>, 1, "likely", None),
                    ChoiceMapRule("bad1", <<>>)>>, "rare", "minor")>>}

BadControls ==
    {<<>>,
     <<Control("c1", "q1", "yes", <<ControlEffect("r1", TRUE, FALSE)>>)>>,
     <<Control("c1", "bad2", "yes", <<ControlEffect("r1", TRUE, FALSE)>>)>>,
     <<Control("c1", "bad2", "yes", <<ControlEffect("r1", TRUE, FALSE)>>),
       Control("c2", "q1", "yes", <<ControlEffect("r1", FALSE, TRUE)>>),
       Control("c3", "bad1", "yes", <<ControlEffect("r2", FALSE, TRUE)>>)>>}

ReferenceForms ==
    {Form(<<Section("s1", <<SubSection("a", <<Q1>>)>>)>>, rs, cs) : rs \in BadRisks, cs \in BadControls}

\* Forms whose second subsection, or its question, is shown on a condition.
ConditionSections(on_subsection, on_question) ==
    <<Section("s1",
        <<SubSection("a", <<Q1, Q2>>),
          with_visible_when(SubSection("b", <<with_visible_when(MS, on_question)>>),
                            on_subsection)>>)>>

CondAtoms == {Equals("q1", "yes"), Equals("q2", "yes"), Contains("ms", "x")}

\* All and Any over one to MaxChildren conditions of pool.
Groups(pool) ==
    LET children == SeqsUpTo(pool, MaxChildren) \ {<<>>}
    IN  {All(cs) : cs \in children} \cup {Any(cs) : cs \in children}

Pairs(left, right) ==
    {All(<<a, b>>) : a \in left, b \in right} \cup {Any(<<a, b>>) : a \in left, b \in right}

CondLevel1 == CondAtoms \cup {Not(c) : c \in CondAtoms} \cup Groups(CondAtoms)

\* A negated atom, or an All or Any of two atoms: what is nested one level down.
Inner == {Not(c) : c \in CondAtoms} \cup Pairs(CondAtoms, CondAtoms)

CondLevel2 ==
    CondLevel1 \cup {Not(c) : c \in CondLevel1}
    \cup Pairs(Inner, CondAtoms) \cup Pairs(CondAtoms, Inner)

CondLevel3 == CondLevel2 \cup {Not(c) : c \in CondLevel2}

ConditionForms ==
    {Form(ConditionSections(c, NoCondition), <<>>, <<>>) : c \in CondLevel3}
    \cup {Form(ConditionSections(NoCondition, c), <<>>, <<>>) : c \in CondLevel1}

\* Equals and Contains on a yes/no and on a multiple-select question.
AtomForms ==
    {Form(ConditionSections(NoCondition, c), <<>>, <<>>) :
        c \in {Equals(qid, v) : qid \in {"q1", "ms"}, v \in {"yes", "x", "e"}}
               \cup {Contains(qid, v) : qid \in {"q1", "ms"}, v \in {"yes", "x", "e"}}}

\* All and Any without a child, alone and inside another condition.
ZeroChildConditions ==
    {All(<<>>), Any(<<>>), Not(All(<<>>)), Not(Any(<<>>)),
     All(<<All(<<>>), Equals("q1", "yes")>>), Any(<<Any(<<>>), Equals("q1", "yes")>>),
     All(<<Any(<<>>)>>), Any(<<All(<<>>)>>)}

ZeroChildForms == {Form(ConditionSections(c, NoCondition), <<>>, <<>>) : c \in ZeroChildConditions}

\* Definitions whose rules and effects still have to pass __post_init__.
SectionsBuild ==
    <<Section("s1", <<SubSection("a", <<Q1, SEASON>>)>>), Section("s2", <<SubSection("b", <<MS>>)>>)>>

BuildRules ==
    {AnyYesRule(<<"q1">>, o[1], o[2]) : o \in Outcomes}
    \cup {CountYesRule(<<"q1">>, 1, o[1], o[2]) : o \in Outcomes}
    \cup {ContainsAnyRule("ms", <<"x">>, o[1], o[2]) : o \in Outcomes}
    \cup {ChoiceMapRule("season", m) :
            m \in {<<>>, <<Item("Winter", Dims(Missing, Missing))>>,
                   <<Item("Winter", Dims(None, None))>>}}
    \cup {AnyYesRule(<<"q1">>, "", None), AnyYesRule(<<"q1">>, "", "major"),
          CountYesRule(<<"q1">>, 1, None, ""), ContainsAnyRule("ms", <<"x">>, "", "")}

BuildControls ==
    {<<>>} \cup
    {<<Control("c1", "q1", "yes", <<ControlEffect("r1", e[1], e[2])>>)>> :
        e \in {<<TRUE, FALSE>>, <<FALSE, TRUE>>, <<TRUE, TRUE>>, <<FALSE, FALSE>>}}

BuildForms ==
    {Form(SectionsBuild, <<Risk("r1", <<r>>, "rare", "minor")>>, cs) :
        r \in BuildRules, cs \in BuildControls}

\* Sections in which two questions have the id q1: in one subsection, and in two sections.
DuplicateIdSections ==
    {<<Section("s1", <<SubSection("a", <<Q1, YesNoQuestion("q1", "Question one again?")>>)>>)>>,
     <<Section("s1", <<SubSection("a", <<Q1, Q2>>)>>),
       Section("s2", <<SubSection("b", <<MultipleChoiceQuestion("q1", "Which one?")>>)>>)>>}

DuplicateIdForms ==
    {Form(secs, <<Risk("r1", <<AnyYesRule(<<"q1">>, "likely", None)>>, "rare", "minor")>>, <<>>) :
        secs \in DuplicateIdSections}

Forms ==
    SingleRuleForms \cup RuleOrderForms \cup DefaultForms \cup CompoundForms
    \cup ReferenceForms \cup ConditionForms \cup AtomForms \cup ZeroChildForms \cup BuildForms
    \cup DuplicateIdForms

(***************************************************************************)
(* main, render_form and the page.                                         *)
(***************************************************************************)
Init ==
    /\ \E f \in Forms :
        /\ sections = f.sections
        /\ risks = f.risks
        /\ controls = f.controls
    /\ pc = "defined"
    /\ calls = <<>>
    /\ errors = <<>>
    /\ section_dicts = <<>>
    /\ risk_dicts = <<>>
    /\ control_getters = <<>>
    /\ answers = <<>>
    /\ display = <<>>

\* The ValueError of a __post_init__: the class that raised it.
ConstructionError(class) == [kind |-> "ValueError", owner |-> class, question |-> "at least one"]

\* The rules of the risks, then the effects of the controls, in definition order.
defined_rules == Flatten([i \in 1..Len(risks) |-> risks[i].rules])

defined_effects == Flatten([i \in 1..Len(controls) |-> controls[i].effects])

\* main: define_risks() and define_controls() construct every rule and effect;
\* the first __post_init__ that raises ends the build.
Construct ==
    /\ pc = "defined"
    /\ LET bad_rules == {i \in 1..Len(defined_rules) : post_init(defined_rules[i]) # "ok"}
           bad_effects == {i \in 1..Len(defined_effects) :
                              effect_post_init(defined_effects[i]) # "ok"}
       IN  IF bad_rules # {}
           THEN /\ pc' = "ConstructionError"
                /\ errors' = <<ConstructionError(
                        defined_rules[CHOOSE i \in bad_rules : \A j \in bad_rules : i <= j].type)>>
           ELSE IF bad_effects # {}
           THEN /\ pc' = "ConstructionError"
                /\ errors' = <<ConstructionError("ControlEffect")>>
           ELSE /\ pc' = "start"
                /\ errors' = <<>>
    /\ UNCHANGED <<sections, risks, controls, calls, section_dicts, risk_dicts,
                   control_getters, answers, display>>

\* Mutant of render_form_steps: prepare_sections called before the validation.
render_form_steps_validate_late ==
    <<"prepare_sections", "validate_question_ids", "prepare_risks", "prepare_controls",
      "template.render">>

\* render_form, lines 129-136: the calls it makes, in the order it makes them.
render_form_steps ==
    <<"validate_question_ids", "prepare_sections", "prepare_risks", "prepare_controls",
      "template.render">>

\* render_form is running and the next call it makes is step.
AtStep(step) ==
    /\ pc \in {"start", "validated", "sections_prepared", "risks_prepared", "controls_prepared"}
    /\ Len(calls) < Len(render_form_steps)
    /\ render_form_steps[Len(calls) + 1] = step

\* render_form, line 129: validate_question_ids raises or returns.
Validate ==
    /\ AtStep("validate_question_ids")
    /\ calls' = Append(calls, "validate_question_ids")
    /\ errors' = validate_question_ids(all_questions(sections), risks, controls)
    /\ pc' = IF errors' # <<>> THEN "ValueError" ELSE "validated"
    /\ UNCHANGED <<sections, risks, controls, section_dicts, risk_dicts, control_getters,
                   answers, display>>

\* render_form, line 130.
PrepareSections ==
    /\ AtStep("prepare_sections")
    /\ calls' = Append(calls, "prepare_sections")
    /\ section_dicts' = prepare_sections(sections)
    /\ pc' = "sections_prepared"
    /\ UNCHANGED <<sections, risks, controls, errors, risk_dicts, control_getters,
                   answers, display>>

\* render_form, line 134.
PrepareRisks ==
    /\ AtStep("prepare_risks")
    /\ calls' = Append(calls, "prepare_risks")
    /\ risk_dicts' = prepare_risks(risks, all_questions(sections))
    /\ pc' = "risks_prepared"
    /\ UNCHANGED <<sections, risks, controls, errors, section_dicts, control_getters,
                   answers, display>>

\* render_form, line 135.
PrepareControls ==
    /\ AtStep("prepare_controls")
    /\ calls' = Append(calls, "prepare_controls")
    /\ risk_dicts' = prepare_controls_risks(controls, risk_dicts)
    /\ control_getters' = prepare_controls_getters(controls)
    /\ pc' = "controls_prepared"
    /\ UNCHANGED <<sections, risks, controls, errors, section_dicts, answers, display>>

\* render_form, lines 136-146, and the page loading with no answer given.
Render ==
    /\ AtStep("template.render")
    /\ calls' = Append(calls, "template.render")
    /\ answers' = [id \in {q.id : q \in Range(all_questions(sections))} |-> Undefined]
    /\ display' = evaluate_all(risk_dicts, control_getters, answers')
    /\ pc' = "live"
    /\ UNCHANGED <<sections, risks, controls, errors, section_dicts, risk_dicts,
                   control_getters>>

\* The user answers a question; every risk is recomputed before the next change.
SetAnswer ==
    /\ pc = "live"
    /\ \E q \in Range(all_questions(sections)) : \E v \in AnswerValues(q.type) :
        /\ v # answers[q.id]
        /\ answers' = [answers EXCEPT ![q.id] = v]
        /\ display' = recompute(display, q.id, risk_dicts, control_getters, answers')
    /\ UNCHANGED <<sections, risks, controls, pc, calls, errors, section_dicts, risk_dicts,
                   control_getters>>

Next ==
    \/ Construct
    \/ Validate
    \/ PrepareSections
    \/ PrepareRisks
    \/ PrepareControls
    \/ Render
    \/ SetAnswer

Spec == Init /\ [][Next]_vars

(***************************************************************************)
(* Properties.                                                             *)
(***************************************************************************)
Live == pc = "live"

RiskIndexes == 1..Len(risks)

\* A dimension of the outcome a rule was given: None, and the empty string that
\* the compiler writes as null, stand for no value.
OutcomeDim(v) == IF v \in {None, ""} THEN null ELSE v

\* What the compiled form of rule j of a risk evaluates to on the current answers.
RuleOutcome(risk, j) == EvalRuleJs(to_js(risk.rules[j]), answers)

Fires(risk, j) == RuleOutcome(risk, j).fired

\* What entry j of the rules_js that prepare_risks emitted for risk k evaluates to.
Compiled(k, j) == EvalRuleJs(risk_dicts[k].rules_js[j], answers)

\* C1: the rules of a risk are evaluated in declaration order and the outcome
\* taken is that of the first rule that fires, whatever the later rules do; when
\* no rule fires the risk's default pair is taken; prepare_risks emits one
\* compiled rule per rule of the risk, in the order of risk.rules.
C1_FirstFiringRuleWins ==
    pc \in {"risks_prepared", "controls_prepared", "live"} =>
        \A k \in RiskIndexes :
            /\ Len(risk_dicts[k].rules_js) = Len(risks[k].rules)
            /\ \A j \in 1..Len(risks[k].rules) : risk_dicts[k].rules_js[j] = to_js(risks[k].rules[j])
            /\ Live =>
                /\ \A j \in 1..Len(risks[k].rules) :
                       (Fires(risks[k], j) /\ \A i \in 1..(j - 1) : ~Fires(risks[k], i))
                           => display[k].taken = RuleOutcome(risks[k], j)
                /\ (\A j \in 1..Len(risks[k].rules) : ~Fires(risks[k], j))
                       => /\ ~display[k].taken.fired
                          /\ display[k].likelihood = tojson(risks[k].default_likelihood)
                          /\ display[k].consequence = tojson(risks[k].default_consequence)

\* C1 witness: two rules with different outcomes both fire and the first one is taken.
C1_Witness ==
    /\ Live
    /\ \E k \in RiskIndexes :
        /\ Len(risks[k].rules) >= 2
        /\ Fires(risks[k], 1)
        /\ Fires(risks[k], 2)
        /\ RuleOutcome(risks[k], 1) # RuleOutcome(risks[k], 2)
        /\ display[k].taken = RuleOutcome(risks[k], 1)

\* C2: after the reductions of any number of present controls, a likelihood of
\* the scale is still on the scale, not above where it started and never below
\* "rare", and a consequence likewise never below "minor"; a value at the lowest
\* step stays there.
C2_ReductionClampsAtLowestStep ==
    Live =>
        \A k \in RiskIndexes :
            /\ display[k].likelihood \in Range(LIKELIHOODS) =>
                /\ display[k].final_likelihood \in Range(LIKELIHOODS)
                /\ IndexOf(LIKELIHOODS, display[k].final_likelihood) >= IndexOf(LIKELIHOODS, "rare")
                /\ IndexOf(LIKELIHOODS, display[k].final_likelihood) <= IndexOf(LIKELIHOODS, display[k].likelihood)
            /\ display[k].likelihood = "rare" => display[k].final_likelihood = "rare"
            /\ display[k].consequence \in Range(CONSEQUENCES) =>
                /\ display[k].final_consequence \in Range(CONSEQUENCES)
                /\ IndexOf(CONSEQUENCES, display[k].final_consequence) >= IndexOf(CONSEQUENCES, "minor")
                /\ IndexOf(CONSEQUENCES, display[k].final_consequence) <= IndexOf(CONSEQUENCES, display[k].consequence)
            /\ display[k].consequence = "minor" => display[k].final_consequence = "minor"

\* C2 witness: two present controls both reduce a consequence that is already "minor".
C2_Witness ==
    /\ Live
    /\ \E k \in RiskIndexes :
        /\ display[k].consequence = "minor"
        /\ Cardinality({i \in 1..Len(display[k].present) :
                            display[k].present[i].reduces_consequence}) >= 2
        /\ display[k].final_consequence = "minor"

\* Every (owner kind, owner id, question id) of the form that names a question
\* the sections do not define.
Offenders ==
    LET valid_ids == {q.id : q \in Range(all_questions(sections))}
        referenced(risk) == UNION {Range(referenced_question_ids(r)) : r \in Range(risk.rules)}
    IN  UNION {{<<"Risk", risks[i].id, qid>> : qid \in referenced(risks[i]) \ valid_ids} :
                  i \in 1..Len(risks)}
        \cup {<<"Control", c.id, c.question_id>> :
                  c \in {c \in Range(controls) : c.question_id \notin valid_ids}}

\* C3: validate_question_ids raises one ValueError whose message names every
\* offending reference with its owner and the missing question id, a risk's as
\* well as a control's, and raises nothing when every referenced id exists.
C3_AllOffendersInOneError ==
    pc \notin {"defined", "ConstructionError", "start"} =>
        /\ (pc = "ValueError") = (Offenders # {})
        /\ {<<e.kind, e.owner, e.question>> : e \in Range(errors)} = Offenders

\* C3 witness: the error names a risk's unknown id and a control's unknown id.
C3_Witness ==
    /\ pc = "ValueError"
    /\ \E e \in Range(errors) : e.kind = "Risk" /\ e.question = "bad1"
    /\ \E e \in Range(errors) : e.kind = "Control" /\ e.question = "bad2"
    /\ Len(errors) >= 4

LevelIndex(level) == IndexOf(RISK_LEVELS, level)

\* C4: RISK_MATRIX is defined for every likelihood and consequence of the
\* scales, every value it stores is a risk level, and so every complete pair the
\* page resolves gets a level of RISK_LEVELS.
C4_MatrixTotal ==
    /\ \A l \in Range(LIKELIHOODS) : \A c \in Range(CONSEQUENCES) :
        /\ l \in DOMAIN RISK_MATRIX
        /\ c \in DOMAIN RISK_MATRIX[l]
        /\ RISK_MATRIX[l][c] \in Range(RISK_LEVELS)
    /\ \A l \in DOMAIN RISK_MATRIX : \A c \in DOMAIN RISK_MATRIX[l] :
        RISK_MATRIX[l][c] \in Range(RISK_LEVELS)
    /\ Live =>
        \A k \in RiskIndexes :
            (display[k].likelihood \in Range(LIKELIHOODS) /\ display[k].consequence \in Range(CONSEQUENCES))
                => display[k].base_level \in Range(RISK_LEVELS) \ {"not_applicable"}

\* C4 witness: the page resolved the pair of the cell a gap would most likely hit.
C4_Witness ==
    /\ Live
    /\ \E k \in RiskIndexes :
        /\ display[k].likelihood = "possible"
        /\ display[k].consequence = "major"
        /\ display[k].base_level = "high"

\* C5: one step up in likelihood with the consequence fixed, or one step up in
\* consequence with the likelihood fixed, never gives a lower level.
C5_MatrixMonotonic ==
    /\ \A i \in 1..Len(LIKELIHOODS) : \A j \in 1..Len(CONSEQUENCES) :
        /\ i < Len(LIKELIHOODS) =>
            LevelIndex(RISK_MATRIX[LIKELIHOODS[i + 1]][CONSEQUENCES[j]])
                >= LevelIndex(RISK_MATRIX[LIKELIHOODS[i]][CONSEQUENCES[j]])
        /\ j < Len(CONSEQUENCES) =>
            LevelIndex(RISK_MATRIX[LIKELIHOODS[i]][CONSEQUENCES[j + 1]])
                >= LevelIndex(RISK_MATRIX[LIKELIHOODS[i]][CONSEQUENCES[j]])
    /\ Live =>
        \A k \in RiskIndexes :
            LET i == IndexOf(LIKELIHOODS, display[k].likelihood)
                j == IndexOf(CONSEQUENCES, display[k].consequence)
            IN  (i > 0 /\ j > 0) =>
                    /\ i < Len(LIKELIHOODS) =>
                        LevelIndex(LevelOf(LIKELIHOODS[i + 1], CONSEQUENCES[j])) >= LevelIndex(display[k].base_level)
                    /\ j < Len(CONSEQUENCES) =>
                        LevelIndex(LevelOf(LIKELIHOODS[i], CONSEQUENCES[j + 1])) >= LevelIndex(display[k].base_level)

\* C5 witness: the page shows a pair whose level rises with one more step of likelihood.
C5_Witness ==
    /\ Live
    /\ \E k \in RiskIndexes :
        /\ display[k].likelihood = "possible"
        /\ display[k].consequence = "minor"
        /\ display[k].base_level = "medium"
        /\ LevelIndex(LevelOf("likely", "minor")) >= LevelIndex(display[k].base_level)

\* C6: a risk whose only rule is AnyYesRule(("q1",), likelihood="likely") and
\* whose default consequence is "minor" resolves, when q1 is "yes" and no control
\* is present, to the pair {likely, minor} and the level "medium".
C6_ExampleLikelyMinorIsMedium ==
    Live =>
        \A k \in RiskIndexes :
            ( /\ risks[k].rules = <<AnyYesRule(<<"q1">>, "likely", None)>>
              /\ risks[k].default_consequence = "minor"
              /\ Lookup(answers, "q1") = Str("yes")
              /\ display[k].present = <<>> )
            => /\ display[k].likelihood = "likely"
               /\ display[k].consequence = "minor"
               /\ display[k].base_level = "medium"
               /\ display[k].level = "medium"

\* C6 witness: that risk, q1 answered "yes", shown as medium; the default
\* likelihood is not the rule's, so the pair is the rule's doing.
C6_Witness ==
    /\ Live
    /\ \E k \in RiskIndexes :
        /\ risks[k].rules = <<AnyYesRule(<<"q1">>, "likely", None)>>
        /\ risks[k].default_consequence = "minor"
        /\ risks[k].default_likelihood = "rare"
        /\ Lookup(answers, "q1") = Str("yes")
        /\ display[k].present = <<>>
        /\ display[k].level = "medium"

\* The pair {likely, minor} is resolved for risk k and exactly one present
\* control acts on it, by one effect that reduces the likelihood only.
C7_Case(k) ==
    /\ display[k].likelihood = "likely"
    /\ display[k].consequence = "minor"
    /\ \E i \in 1..Len(controls) :
        /\ controls[i].effects = <<ControlEffect(risks[k].id, TRUE, FALSE)>>
        /\ EvalPresenceJs(presence_js(controls[i]), answers)
        /\ \A j \in 1..Len(controls) :
              (j # i /\ EvalPresenceJs(presence_js(controls[j]), answers))
                  => \A e \in Range(controls[j].effects) : e.risk_id # risks[k].id

\* C7 as stated: from the resolved pair {likely, minor}, one present control
\* that reduces the likelihood and not the consequence gives {unlikely, minor}
\* and the final level "low".
C7_ExampleControlDowngradesToLow ==
    Live =>
        \A k \in RiskIndexes :
            C7_Case(k) =>
                /\ display[k].base_level = "medium"
                /\ display[k].final_likelihood = "unlikely"
                /\ display[k].final_consequence = "minor"
                /\ display[k].level = "low"

\* C7, amended: from the resolved pair {likely, minor} (level "medium"), one
\* present control that reduces the likelihood and not the consequence gives
\* {possible, minor}, the step below "likely" in LIKELIHOODS, and the final
\* level is still "medium".
C7_ControlStepsLikelyDownToPossible ==
    Live =>
        \A k \in RiskIndexes :
            C7_Case(k) =>
                /\ display[k].base_level = "medium"
                /\ display[k].final_likelihood = "possible"
                /\ display[k].final_consequence = "minor"
                /\ display[k].level = "medium"

\* C7 witness: the pair {likely, minor} taken from the example's rule, with
\* exactly that control present.
C7_Witness ==
    /\ Live
    /\ \E k \in RiskIndexes :
        /\ C7_Case(k)
        /\ risks[k].rules = <<AnyYesRule(<<"q1">>, "likely", None)>>
        /\ display[k].taken.fired
        /\ display[k].present = <<control_entry(controls[1], controls[1].effects[1])>>
        /\ display[k].final_likelihood = "possible"

DeclaredDim(risk, dim) ==
    IF \A j \in 1..Len(risk.rules) : ~Fires(risk, j) THEN None
    ELSE LET j == CHOOSE j \in 1..Len(risk.rules) :
                      Fires(risk, j) /\ \A i \in 1..(j - 1) : ~Fires(risk, i)
             r == risk.rules[j]
         IN  IF r.type = "choice_map"
             THEN LET key == ToPropertyKey(Lookup(answers, r.question_id))
                      e == CHOOSE e \in Range(r.mapping) : e.answer = key
                  IN  IF e.dims[dim] = Missing THEN None ELSE e.dims[dim]
             ELSE IF r[dim] = "" THEN None ELSE r[dim]

YesEntries(rule) == {i \in 1..Len(rule.question_ids) : Lookup(answers, rule.question_ids[i]) = Str("yes")}

\* C10: a risk whose only rule is a CountYesRule: the compiled rule yields its
\* outcome iff the number of entries of question_ids answered exactly "yes" is
\* >= threshold, and null otherwise; a threshold of 0 fires on every answer map,
\* a threshold above len(question_ids) on none, and such a rule passes
\* construction.
C10_CountYesThreshold ==
    Live =>
        \A k \in RiskIndexes :
            (Len(risks[k].rules) = 1 /\ risks[k].rules[1].type = "count_yes") =>
                LET r == risks[k].rules[1]
                IN  /\ Compiled(k, 1).fired = (Cardinality(YesEntries(r)) >= r.threshold)
                    /\ Compiled(k, 1).fired =>
                        /\ Compiled(k, 1).likelihood = OutcomeDim(r.likelihood)
                        /\ Compiled(k, 1).consequence = OutcomeDim(r.consequence)
                    /\ ~Compiled(k, 1).fired => Compiled(k, 1) = NoOutcome
                    /\ r.threshold = 0 => Compiled(k, 1).fired
                    /\ r.threshold > Len(r.question_ids) => ~Compiled(k, 1).fired
                    /\ post_init(r) = "ok"

\* C10 witness: a rule with a threshold above the length of its list is in a
\* built form, every listed question is answered "yes", and it does not fire.
C10_Witness ==
    /\ Live
    /\ \E k \in RiskIndexes :
        /\ Len(risks[k].rules) = 1
        /\ risks[k].rules[1].type = "count_yes"
        /\ risks[k].rules[1].question_ids = <<"q1", "q2">>
        /\ risks[k].rules[1].threshold = 3
        /\ Lookup(answers, "q1") = Str("yes")
        /\ Lookup(answers, "q2") = Str("yes")
        /\ ~Compiled(k, 1).fired

(***************************************************************************)
(* Rules on a multiple-select answer and on yes/no answers.                *)
(***************************************************************************)
QuestionType(qid) ==
    LET qs == {q \in Range(all_questions(sections)) : q.id = qid}
    IN  IF qs = {} THEN "none" ELSE (CHOOSE q \in qs : TRUE).type

\* The elements of a multiple-select answer; none for an absent answer.
Elements(v) == IF v.kind = "array" THEN Range(v.a) ELSE {}

\* C11: a risk whose only rule is a ContainsAnyRule with a non-empty values
\* list on a multiple-select question: the compiled rule yields its outcome iff
\* the answer (absent = empty array) has an element in common with values, and
\* null otherwise; an absent answer gives null.
C11_ContainsAnyIntersects ==
    Live =>
        \A k \in RiskIndexes :
            (/\ Len(risks[k].rules) = 1
             /\ risks[k].rules[1].type = "contains_any"
             /\ risks[k].rules[1].values # <<>>
             /\ QuestionType(risks[k].rules[1].question_id) = "multiple_select") =>
                LET r == risks[k].rules[1]
                    a == Lookup(answers, r.question_id)
                IN  /\ Compiled(k, 1).fired = (Elements(a) \cap Range(r.values) # {})
                    /\ Compiled(k, 1).fired =>
                        /\ Compiled(k, 1).likelihood = OutcomeDim(r.likelihood)
                        /\ Compiled(k, 1).consequence = OutcomeDim(r.consequence)
                    /\ ~Compiled(k, 1).fired => Compiled(k, 1) = NoOutcome
                    /\ a = Undefined => Compiled(k, 1) = NoOutcome

\* C11 witness: the answer ["y", "x"] and the values ("z", "x") differ but share
\* "x", and the rule has fired.
C11_Witness ==
    /\ Live
    /\ \E k \in RiskIndexes :
        /\ Len(risks[k].rules) = 1
        /\ risks[k].rules[1].type = "contains_any"
        /\ risks[k].rules[1].values = <<"z", "x">>
        /\ Lookup(answers, risks[k].rules[1].question_id) = Arr(<<"y", "x">>)
        /\ Compiled(k, 1).fired

\* C12: a risk whose only rule is an AnyYesRule: the compiled rule yields its
\* outcome iff at least one id of question_ids has the answer 'yes' (the string
\* itself: not an absent answer, 'no', another choice or an array), and null
\* otherwise; with no question_ids it never fires.
C12_AnyYesFiresOnExactYes ==
    Live =>
        \A k \in RiskIndexes :
            (Len(risks[k].rules) = 1 /\ risks[k].rules[1].type = "any_yes") =>
                LET r == risks[k].rules[1]
                IN  /\ Compiled(k, 1).fired = (YesEntries(r) # {})
                    /\ Compiled(k, 1).fired =>
                        /\ Compiled(k, 1).likelihood = OutcomeDim(r.likelihood)
                        /\ Compiled(k, 1).consequence = OutcomeDim(r.consequence)
                    /\ ~Compiled(k, 1).fired => Compiled(k, 1) = NoOutcome
                    /\ r.question_ids = <<>> => ~Compiled(k, 1).fired

\* C12 witness: the only listed question holds the array ["yes"], which is not
\* the string 'yes', and the rule has not fired.
C12_Witness ==
    /\ Live
    /\ \E k \in RiskIndexes :
        /\ Len(risks[k].rules) = 1
        /\ risks[k].rules[1].type = "any_yes"
        /\ risks[k].rules[1].question_ids = <<"ms">>
        /\ Lookup(answers, "ms") = Arr(<<"yes">>)
        /\ ~Compiled(k, 1).fired

(***************************************************************************)
(* Visibility conditions: the compiled text against the live answers.      *)
(***************************************************************************)
\* Every condition of the form with the text prepare_sections compiled for it.
Sites ==
    UNION {UNION {
        LET sub == sections[i].subsections[j]
            sd == section_dicts[i].subsections[j]
        IN  (IF sd.has_visible_when_js
             THEN {[cond |-> sub.visible_when, js |-> sd.visible_when_js]} ELSE {})
            \cup {[cond |-> sub.questions[n].visible_when, js |-> sd.questions[n].visible_when_js] :
                    n \in {m \in 1..Len(sub.questions) : sd.questions[m].has_visible_when_js}}
        : j \in 1..Len(section_dicts[i].subsections)} : i \in 1..Len(section_dicts)}

\* c and every condition nested in it.
RECURSIVE SubConditions(_)
SubConditions(c) ==
    {c} \cup
    (CASE c.type \in {"all", "any"} ->
            UNION {SubConditions(c.conditions[i]) : i \in 1..Len(c.conditions)}
       [] c.type = "not" -> SubConditions(c.condition)
       [] OTHER -> {})

\* Every All and Any in c has at least one child.
HasChildren(c) ==
    \A n \in SubConditions(c) : n.type \in {"all", "any"} => n.conditions # <<>>

\* What c.to_js() evaluates to on the live answers.
Value(c) == EvalJs(condition_to_js(c), answers)

\* JavaScript !v
Negation(v) == Bool(~Truthy(v))

\* C13: for every condition C whose All and Any have children, at any nesting,
\* the text compiled from Not(C) evaluates to the logical negation of the text
\* compiled from C on every answer map, and Not(Not(C)) evaluates as C does.
C13_NotNegates ==
    Live =>
        \A site \in Sites : HasChildren(site.cond) =>
            /\ site.js = condition_to_js(site.cond)
            /\ site.cond.type = "not" =>
                EvalJs(site.js, answers) = Negation(Value(site.cond.condition))
            /\ \A n \in SubConditions(site.cond) : n.type = "not" =>
                /\ Value(n.condition).kind = "boolean"
                /\ Value(n) = Negation(Value(n.condition))
                /\ n.condition.type = "not" => Value(n) = Value(n.condition.condition)

\* C13 witness: a subsection shown on Not(Not(Equals(q1, yes))), q1 answered
\* "yes", and its compiled text evaluates to true.
C13_Witness ==
    /\ Live
    /\ \E site \in Sites :
        /\ site.cond = Not(Not(Equals("q1", "yes")))
        /\ Lookup(answers, "q1") = Str("yes")
        /\ EvalJs(site.js, answers) = Bool(TRUE)

\* C14: for every All or Any with at least one child, at any nesting depth, the
\* compiled text evaluates to the conjunction (All) or disjunction (Any) of what
\* its children's compiled texts evaluate to: a child that is itself an Any in
\* an All, an All in an Any, or either in a Not, keeps its own grouping.
C14_AllAnyOfChildren ==
    Live =>
        \A site \in Sites : HasChildren(site.cond) =>
            /\ site.js = condition_to_js(site.cond)
            /\ EvalJs(site.js, answers).kind = "boolean"
            /\ \A n \in SubConditions(site.cond) :
                /\ n.type = "all" =>
                    Value(n) = Bool(\A i \in 1..Len(n.conditions) : Truthy(Value(n.conditions[i])))
                /\ n.type = "any" =>
                    Value(n) = Bool(\E i \in 1..Len(n.conditions) : Truthy(Value(n.conditions[i])))

\* C14 witness: All((Any((q1 = yes, q2 = yes)), ms contains x)) with q1 "yes"
\* and no "x" in ms: false, where "q1 || (q2 && ms)" would be true.
C14_Witness ==
    /\ Live
    /\ \E site \in Sites :
        /\ site.cond = All(<<Any(<<Equals("q1", "yes"), Equals("q2", "yes")>>), Contains("ms", "x")>>)
        /\ Lookup(answers, "q1") = Str("yes")
        /\ Lookup(answers, "ms") = Arr(<<>>)
        /\ EvalJs(site.js, answers) = Bool(FALSE)

\* What a condition means on an answer map: Equals is equality with the
\* literal, Contains is membership in an array answer, All/Any/Not are the
\* logical connectives, with the vacuous All true and the vacuous Any false.
RECURSIVE Meaning(_, _)
Meaning(c, ans) ==
    CASE c.type = "equals" -> Lookup(ans, c.question_id) = Str(c.value)
      [] c.type = "contains" ->
            LET a == Lookup(ans, c.question_id)
            IN  a.kind = "array" /\ c.value \in Range(a.a)
      [] c.type = "all" -> \A i \in 1..Len(c.conditions) : Meaning(c.conditions[i], ans)
      [] c.type = "any" -> \E i \in 1..Len(c.conditions) : Meaning(c.conditions[i], ans)
      [] c.type = "not" -> ~Meaning(c.condition, ans)

\* C15: All(()) compiles to a text that evaluates to true and Any(()) to one
\* that evaluates to false on every answer map, also as a child of another
\* All, Any or Not: a condition containing one evaluates to what it means.
C15_ZeroChildConditionsDefined ==
    Live =>
        \A site \in Sites : ~HasChildren(site.cond) =>
            /\ EvalJs(site.js, answers) = Bool(Meaning(site.cond, answers))
            /\ \A n \in SubConditions(site.cond) :
                /\ n = All(<<>>) => Value(n) = Bool(TRUE)
                /\ n = Any(<<>>) => Value(n) = Bool(FALSE)

\* C16: compiled Equals(qid, v) is true iff answers[qid] is present and the
\* string v itself (never for an absent or an array answer); compiled
\* Contains(qid, v) is true iff answers[qid] is an array containing v, and is
\* false, without error, for an absent answer.
C16_EqualsAndContains ==
    Live =>
        \A site \in Sites :
            LET c == site.cond
                a == Lookup(answers, c.question_id)
            IN  /\ c.type = "equals" =>
                    EvalJs(site.js, answers) = Bool(a.kind = "string" /\ a.s = c.value)
                /\ c.type = "contains" =>
                    /\ EvalJs(site.js, answers) = Bool(a.kind = "array" /\ c.value \in Range(a.a))
                    /\ a = Undefined => EvalJs(site.js, answers) = Bool(FALSE)

\* The question ids a condition refers to.
ConditionIds(c) == {n.question_id : n \in {m \in SubConditions(c) : m.type \in {"equals", "contains"}}}

Unanswered(ids) == \A id \in ids : Lookup(answers, id) = Undefined

LacksBothDimensions(rule) ==
    /\ rule.type \in {"any_yes", "count_yes", "contains_any"}
    /\ rule.likelihood = None
    /\ rule.consequence = None

LacksBothReductions(effect) == ~effect.reduces_likelihood /\ ~effect.reduces_consequence

\* C18: construction fails at once with a ValueError ("at least one") when an
\* AnyYesRule, CountYesRule or ContainsAnyRule has likelihood and consequence
\* both None, and when a ControlEffect has both flags false; otherwise every
\* object is built as given; a ChoiceMapRule is built whatever its entries hold.
C18_ConstructionRequiresADimension ==
    pc # "defined" =>
        /\ (pc = "ConstructionError") =
                (\/ \E r \in Range(defined_rules) : LacksBothDimensions(r)
                 \/ \E e \in Range(defined_effects) : LacksBothReductions(e))
        /\ pc = "ConstructionError" =>
            /\ Len(errors) = 1
            /\ errors[1].kind = "ValueError"
            /\ errors[1].question = "at least one"
            /\ (\E r \in Range(defined_rules) : LacksBothDimensions(r)) =>
                    errors[1].owner \in {"any_yes", "count_yes", "contains_any"}
            /\ calls = <<>>
            /\ section_dicts = <<>> /\ risk_dicts = <<>> /\ control_getters = <<>>
            /\ answers = <<>> /\ display = <<>>
        /\ pc # "ConstructionError" =>
            /\ \A r \in Range(defined_rules) :
                r.type # "choice_map" => (r.likelihood # None \/ r.consequence # None)
            /\ \A e \in Range(defined_effects) : e.reduces_likelihood \/ e.reduces_consequence

\* C18 witness: a ContainsAnyRule given neither dimension has ended the build
\* with the ValueError of its __post_init__.
C18_Witness ==
    /\ pc = "ConstructionError"
    /\ errors = <<ConstructionError("contains_any")>>
    /\ \E r \in Range(defined_rules) :
        r.type = "contains_any" /\ r.likelihood = None /\ r.consequence = None

\* The risk ids that control effects name and no risk has.
UnknownRiskIds == {e.risk_id : e \in Range(defined_effects)} \ {r.id : r \in Range(risks)}

\* C19: a control effect whose risk_id is the id of no Risk makes the build fail
\* with the aggregated validation error, which names that risk id, before
\* anything is compiled or rendered.
C19_UnknownRiskIdIsAnError ==
    pc \notin {"defined", "ConstructionError", "start"} =>
        (UnknownRiskIds # {} =>
            /\ pc = "ValueError"
            /\ \A rid \in UnknownRiskIds : \E e \in Range(errors) : e.question = rid)

\* C20: render_form calls validate_question_ids before prepare_sections,
\* prepare_risks, prepare_controls and template.render; when validation fails
\* none of them has run or runs, and no page is returned.
C20_ValidationBeforeCompilation ==
    /\ \A i \in 1..Len(calls) :
        calls[i] # "validate_question_ids" =>
            /\ \E j \in 1..(i - 1) : calls[j] = "validate_question_ids"
            /\ errors = <<>>
            /\ Offenders = {}
    /\ pc = "ValueError" =>
        /\ calls = <<"validate_question_ids">>
        /\ Offenders # {}
        /\ section_dicts = <<>> /\ risk_dicts = <<>> /\ control_getters = <<>>
        /\ answers = <<>> /\ display = <<>>
        /\ ~ENABLED Next
    /\ (section_dicts # <<>> \/ risk_dicts # <<>> \/ control_getters # <<>> \/ pc = "live") =>
        /\ calls # <<>>
        /\ calls[1] = "validate_question_ids"

\* C20 witness: validation has failed on a form, and no other step has run.
C20_Witness ==
    /\ pc = "ValueError"
    /\ calls = <<"validate_question_ids">>
    /\ errors # <<>>
    /\ section_dicts = <<>>

Matches(v, present_value) ==
    CASE v.kind = "array" -> \E i \in 1..Len(v.a) : v.a[i] = present_value
      [] v.kind = "string" -> v.s = present_value
      [] OTHER -> FALSE

C22_ControlPresentIffAnswerMatches ==
    Live =>
        \A i \in 1..Len(controls) :
            is_present(control_getters, controls[i].id, answers)
                <=> Matches(Lookup(answers, controls[i].question_id), controls[i].present_value)

\* One control is present through an array answer of two elements, another through
\* a scalar answer, while another question of the form is unanswered.
C22_Witness ==
    /\ Live
    /\ \E i, j \in 1..Len(controls) :
        /\ Lookup(answers, controls[i].question_id) = Arr(<<"y", "x">>)
        /\ is_present(control_getters, controls[i].id, answers)
        /\ Lookup(answers, controls[j].question_id) = Str("yes")
        /\ is_present(control_getters, controls[j].id, answers)
    /\ \E q \in DOMAIN answers : answers[q] = Undefined

(***************************************************************************)
(* C23: every entry of the lookup table a ChoiceMapRule compiles to        *)
(* carries both a likelihood and a consequence: a dimension the source     *)
(* entry lacks is null, a dimension it has keeps its value, and the        *)
(* table's answer keys are the mapping's keys.                             *)
(***************************************************************************)
\* What a dimension of a source entry must read as in the compiled table.
Normalised(source) == IF source \in {Missing, None} THEN null ELSE source

C23_LookupTableIsNormalised ==
    risk_dicts # <<>> =>
        \A k \in RiskIndexes : \A j \in 1..Len(risks[k].rules) :
            risks[k].rules[j].type = "choice_map" =>
                LET mapping == risks[k].rules[j].mapping
                    table == risk_dicts[k].rules_js[j].table
                IN  /\ {table[i].answer : i \in 1..Len(table)}
                            = {mapping[i].answer : i \in 1..Len(mapping)}
                    /\ Len(table) = Len(mapping)
                    /\ \A i \in 1..Len(table) :
                        /\ table[i].answer = mapping[i].answer
                        /\ table[i].likelihood # Missing
                        /\ table[i].consequence # Missing
                        /\ table[i].likelihood = Normalised(mapping[i].dims.likelihood)
                        /\ table[i].consequence = Normalised(mapping[i].dims.consequence)

\* A compiled mapping of two entries, one of them without a consequence.
C23_Witness ==
    /\ risk_dicts # <<>>
    /\ \E k \in RiskIndexes : \E j \in 1..Len(risks[k].rules) :
        /\ risks[k].rules[j].type = "choice_map"
        /\ Len(risks[k].rules[j].mapping) = 2
        /\ risks[k].rules[j].mapping[1].dims.consequence = Missing
        /\ risk_dicts[k].rules_js[j].table[1].consequence = null
        /\ risk_dicts[k].rules_js[j].table[2].consequence = "minor"

(***************************************************************************)
(* C24: prepare_controls raises nothing for an effect whose risk_id is     *)
(* the id of no risk dict.  The effect is skipped, every control still     *)
(* gets its presence getter, one per control in control order, and every   *)
(* risk dict gets a "controls" list, empty when no effect targets it.      *)
(***************************************************************************)
ControlsPrepared == "prepare_controls" \in Range(calls)

\* The effects of the controls that name the risk, in loop order.
EffectsOn(risk_id) ==
    SelectSeq(effect_iterations(controls), LAMBDA it : it.effect.risk_id = risk_id)

C24_UnknownRiskIdIsSkipped ==
    ControlsPrepared =>
        /\ pc \in {"controls_prepared", "live"}
        /\ errors = <<>>
        /\ Len(control_getters) = Len(controls)
        /\ \A i \in 1..Len(controls) : control_getters[i].id = controls[i].id
        /\ \A k \in 1..Len(risk_dicts) :
            /\ risk_dicts[k].has_controls
            /\ Len(risk_dicts[k].controls) = Len(EffectsOn(risk_dicts[k].id))
            /\ EffectsOn(risk_dicts[k].id) = <<>> => risk_dicts[k].controls = <<>>

\* prepare_controls has returned for a control with an effect on a risk id that no
\* risk dict has, and one of the risk dicts has an empty "controls" list.
C24_Witness ==
    /\ ControlsPrepared
    /\ \E it \in Range(effect_iterations(controls)) :
        /\ risk_by_id(risk_dicts, it.effect.risk_id) = 0
        /\ \E g \in 1..Len(control_getters) : control_getters[g].id = it.ctrl.id
    /\ \E k \in 1..Len(risk_dicts) : risk_dicts[k].has_controls /\ risk_dicts[k].controls = <<>>

(***************************************************************************)
(* C25: the "questions" list of a risk dict holds each question id the     *)
(* risk's rules reference exactly once, in the order of first reference    *)
(* across the rules in declaration order, each with the text of the        *)
(* question of that id.                                                    *)
(***************************************************************************)
\* The ids the rules of a risk reference, rule after rule, repeats included.
References(risk) ==
    Flatten([j \in 1..Len(risk.rules) |-> referenced_question_ids(risk.rules[j])])

C25_QuestionsListedOnceInReferenceOrder ==
    risk_dicts # <<>> =>
        \A k \in RiskIndexes :
            LET refs == References(risks[k])
                qs == risk_dicts[k].questions
            IN  /\ {qs[i].id : i \in 1..Len(qs)} = Range(refs)
                /\ \A a, b \in 1..Len(qs) :
                    /\ qs[a].id = qs[b].id => a = b
                    /\ a < b => IndexOf(refs, qs[a].id) < IndexOf(refs, qs[b].id)
                /\ \A a \in 1..Len(qs) :
                    \E q \in Range(all_questions(sections)) :
                        q.id = qs[a].id /\ q.text = qs[a].text

\* Two rules reference q2, then q1 and q2 again: the list is q2, q1 with their texts.
C25_Witness ==
    /\ risk_dicts # <<>>
    /\ \E k \in RiskIndexes :
        /\ References(risks[k]) = <<"q2", "q1", "q2">>
        /\ risk_dicts[k].questions =
                <<[id |-> "q2", text |-> "Question two?"], [id |-> "q1", text |-> "Question one?"]>>

(***************************************************************************)
(* C26: question ids are unique across the form.  In every form for which  *)
(* render_form returns, no two questions, of one or of several sections    *)
(* and subsections, have the same id.                                      *)
(***************************************************************************)
C26_AcceptedFormHasUniqueQuestionIds ==
    Live =>
        LET questions == all_questions(sections)
        IN  \A i, j \in 1..Len(questions) : questions[i].id = questions[j].id => i = j

(***************************************************************************)
(* C28: an AnyYesRule, CountYesRule or ContainsAnyRule that passed its     *)
(* construction compiles to an outcome whose likelihood is non-null        *)
(* exactly when the rule's likelihood is not None, likewise for the        *)
(* consequence, so that at least one dimension of it is non-null.          *)
(***************************************************************************)
C28_CompiledOutcomeKeepsDeclaredDimensions ==
    risk_dicts # <<>> =>
        \A k \in RiskIndexes : \A j \in 1..Len(risks[k].rules) :
            risks[k].rules[j].type \in {"any_yes", "count_yes", "contains_any"} =>
                LET rule == risks[k].rules[j]
                    result == risk_dicts[k].rules_js[j].result
                IN  /\ result.likelihood # null <=> rule.likelihood # None
                    /\ result.consequence # null <=> rule.consequence # None
                    /\ result.likelihood # null \/ result.consequence # null

(***************************************************************************)
(* C27: the controls of a risk compound in control declaration order.      *)
(* The "controls" list of a risk dict has one entry for each effect that   *)
(* names the risk, control after control and, within a control, effect     *)
(* after effect, each with the effect's two flags; and with k present      *)
(* entries that reduce likelihood the likelihood is min(k, index) steps    *)
(* lower, index counting the steps of LIKELIHOODS from 0.                  *)
(***************************************************************************)
\* The positions (control, effect) of the effects that name the risk.
Targeting(risk_id) ==
    UNION {{<<i, e>> : e \in {e \in 1..Len(controls[i].effects) :
                                    controls[i].effects[e].risk_id = risk_id}} :
            i \in 1..Len(controls)}

Min(a, b) == IF a <= b THEN a ELSE b

\* The entries of a risk dict's list that reduce likelihood and whose control is present.
PresentLikelihoodReducers(k) ==
    {i \in 1..Len(risk_dicts[k].controls) :
        /\ risk_dicts[k].controls[i].reduces_likelihood
        /\ \E c \in Range(controls) :
            /\ c.id = risk_dicts[k].controls[i].id
            /\ Matches(Lookup(answers, c.question_id), c.present_value)}

C27_ControlsCompoundInDeclarationOrder ==
    /\ ControlsPrepared =>
        \A k \in 1..Len(risk_dicts) :
            LET list == risk_dicts[k].controls
                at == Targeting(risk_dicts[k].id)
            IN  /\ Len(list) = Cardinality(at)
                /\ \A p \in at :
                    LET before == {o \in at : o[1] < p[1] \/ (o[1] = p[1] /\ o[2] < p[2])}
                        entry == list[Cardinality(before) + 1]
                        effect == controls[p[1]].effects[p[2]]
                    IN  /\ entry.id = controls[p[1]].id
                        /\ entry.reduces_likelihood = effect.reduces_likelihood
                        /\ entry.reduces_consequence = effect.reduces_consequence
    /\ Live =>
        \A k \in 1..Len(risk_dicts) :
            display[k].likelihood # null =>
                LET index == IndexOf(LIKELIHOODS, display[k].likelihood) - 1
                    n == Cardinality(PresentLikelihoodReducers(k))
                IN  IndexOf(LIKELIHOODS, display[k].final_likelihood) - 1 = index - Min(n, index)

\* A control with two effects on one risk follows another control with an effect on
\* it; all three entries are present, two of them reduce likelihood, and the risk's
\* likelihood is two steps lower.
C27_Witness ==
    /\ Live
    /\ \E k \in 1..Len(risk_dicts) :
        /\ Len(risk_dicts[k].controls) = 3
        /\ risk_dicts[k].controls[1].id # risk_dicts[k].controls[2].id
        /\ risk_dicts[k].controls[2].id = risk_dicts[k].controls[3].id
        /\ risk_dicts[k].controls[2].reduces_likelihood # risk_dicts[k].controls[3].reduces_likelihood
        /\ Cardinality(PresentLikelihoodReducers(k)) = 2
        /\ IndexOf(LIKELIHOODS, display[k].final_likelihood)
               = IndexOf(LIKELIHOODS, display[k].likelihood) - 2

(***************************************************************************)
(* C29: control reductions never make a risk more severe.  The final level *)
(* resolved after the reductions is not above the level resolved from the  *)
(* same complete pair before them, and each further present control leaves *)
(* the final level where it was or lowers it.                              *)
(***************************************************************************)
\* The level shown for risk k if only the first n of its present controls applied.
LevelAfter(k, n) ==
    LET pair == apply_controls(
                    [likelihood |-> display[k].likelihood, consequence |-> display[k].consequence],
                    SubSeq(display[k].present, 1, n))
    IN  LevelOf(pair.likelihood, pair.consequence)

C29_ReductionsNeverRaiseTheLevel ==
    Live =>
        \A k \in 1..Len(display) :
            (display[k].likelihood # null /\ display[k].consequence # null) =>
                /\ LevelIndex(display[k].level) >= 1
                /\ LevelIndex(display[k].level) <= LevelIndex(display[k].base_level)
                /\ display[k].level = LevelAfter(k, Len(display[k].present))
                /\ \A n \in 1..Len(display[k].present) :
                    LevelIndex(LevelAfter(k, n)) <= LevelIndex(LevelAfter(k, n - 1))

\* At least two present controls on a complete pair rated high: the level after the
\* first is not above high, and the final level is below the level after the first.
C29_Witness ==
    /\ Live
    /\ \E k \in 1..Len(display) :
        /\ Len(display[k].present) >= 2
        /\ display[k].base_level = "high"
        /\ LevelIndex(LevelAfter(k, 1)) <= LevelIndex(display[k].base_level)
        /\ LevelIndex(display[k].level) < LevelIndex(LevelAfter(k, 1))

(***************************************************************************)
(* C30: AnyYesRule(ids, l, c) and CountYesRule(ids, 1, l, c) are           *)
(* equivalent.  On every answer map the two compiled rules both fire or    *)
(* both yield null, and when they fire they yield the same outcome.        *)
(***************************************************************************)
\* The rule of the other of the two types with the same ids and the same outcome.
Twin(rule) ==
    IF rule.type = "any_yes"
    THEN CountYesRule(rule.question_ids, 1, rule.likelihood, rule.consequence)
    ELSE AnyYesRule(rule.question_ids, rule.likelihood, rule.consequence)

C30_AnyYesIsCountYesOfOne ==
    Live =>
        \A k \in RiskIndexes : \A j \in 1..Len(risks[k].rules) :
            LET r == risks[k].rules[j]
            IN  (r.type = "any_yes" \/ (r.type = "count_yes" /\ r.threshold = 1)) =>
                    /\ Twin(r).type # r.type
                    /\ Compiled(k, j) = EvalRuleJs(to_js(Twin(r)), answers)

\* An AnyYesRule over q1 and q2 fires on q2 alone, as its CountYesRule twin does.
C30_Witness ==
    /\ Live
    /\ \E k \in RiskIndexes :
        /\ Len(risks[k].rules) >= 1
        /\ risks[k].rules[1].type = "any_yes"
        /\ risks[k].rules[1].question_ids = <<"q1", "q2">>
        /\ Lookup(answers, "q1") # Str("yes")
        /\ Lookup(answers, "q2") = Str("yes")
        /\ Compiled(k, 1).fired
        /\ EvalRuleJs(to_js(Twin(risks[k].rules[1])), answers).fired

====
